---- MODULE Spec2Model ----
(***************************************************************************)
(* Model of the history pruning of browser_cleaner.py                      *)
(* (BrowserDataCleaner.clean_chrome_data / clean_firefox_data /            *)
(* clean_brave_data and the family loop of main).                          *)
(*                                                                         *)
(* A store is three paths of one profile: the live database, its backup    *)
(* (.bak) and the working copy (history_temp.db / places_temp.sqlite).     *)
(* Every statement of a mutation cycle is one action; every statement can  *)
(* raise (an OSError or sqlite3.Error), which transfers control to the     *)
(* except block of the cycle.                                              *)
(*                                                                         *)
(* Modelling notes                                                         *)
(*  - TLC integers are 32 bits wide, so chrome_epoch_offset is the source's *)
(*    11644473600 divided by 10^7 and the clock starts at Now0 seconds;     *)
(*    3600 and 1000000 keep their values.                                   *)
(*  - a table is a set of rows; keyword_search_terms and moz_bookmarks are  *)
(*    reduced to the set of page ids their rows reference.                  *)
(*  - the page reference of a visit row is never NULL; a moz_bookmarks row   *)
(*    may have a NULL one (bmNull), which makes every "id NOT IN (SELECT    *)
(*    place_id FROM moz_bookmarks)" unknown, so that no row is deleted.     *)
(*  - a second invocation of the program on the same store (RunAgain) and   *)
(*    bare calls of get_cutoff_time are explored by specifications of their *)
(*    own (TwiceSpec, CutoffSpec).                                          *)
(*  - delete_hx.py (BrowserHistoryCleaner, whole-table clears of Safari,     *)
(*    Chrome, Firefox and Brave) is the specification HxSpec over the same  *)
(*    files, connection and report variables.                               *)
(*  - ConcSpec runs a browser_cleaner cycle next to one pass of             *)
(*    view_cache.py over the same profile and a commit of the owning        *)
(*    browser to the live file.                                             *)
(***************************************************************************)
EXTENDS Integers, Sequences, FiniteSets, TLC

\* ---------------------------------------------------------------- bounds
MaxPage == 2
MaxVisits == 2
MaxProfiles == 2
MaxTicks == 1
MaxFailures == 1
MaxRuns == 2
MaxHours == 2
MaxNow == 40
Now0 == 3601

\* ------------------------------------------------------ program constants
HourSeconds == 3600
MicrosPerSecond == 1000000
chrome_epoch_offset == 1164
WindowHours == 1

Families == {"Chrome", "Firefox", "Brave"}
FamilyOrder == <<"Chrome", "Firefox", "Brave">>
Chromium == {"Chrome", "Brave"}
PageIds == 1..MaxPage
Columns == {"url_id", "url", "none"}

\* ------------------------------------------------------------------ time
get_cutoff_time_oneEpoch(now, tr) ==
    IF tr = 0
    THEN [chrome |-> 0, brave |-> 0, firefox |-> 0, unix |-> 0]
    ELSE LET cutoff_time == now - (tr * HourSeconds)
             chrome_cutoff == (cutoff_time + chrome_epoch_offset) * MicrosPerSecond
         IN  [chrome |-> chrome_cutoff, brave |-> chrome_cutoff,
              firefox |-> chrome_cutoff, unix |-> cutoff_time]

get_cutoff_time(now, tr) ==
    IF tr = 0
    THEN [chrome |-> 0, brave |-> 0, firefox |-> 0, unix |-> 0]
    ELSE LET cutoff_time == now - (tr * HourSeconds)
             chrome_cutoff == (cutoff_time + chrome_epoch_offset) * MicrosPerSecond
             firefox_cutoff == cutoff_time * MicrosPerSecond
         IN  [chrome |-> chrome_cutoff, brave |-> chrome_cutoff,
              firefox |-> firefox_cutoff, unix |-> cutoff_time]

\* Before a routine has called get_cutoff_time.
NoCutoffs == [chrome |-> 0, brave |-> 0, firefox |-> 0, unix |-> 0]

FamilyCutoff(f, now, tr) ==
    IF f = "Chrome" THEN get_cutoff_time(now, tr).chrome
    ELSE IF f = "Brave" THEN get_cutoff_time(now, tr).brave
    ELSE get_cutoff_time(now, tr).firefox

\* --------------------------------------------------------------- databases
EmptyDb ==
    [urls |-> {}, visits |-> {}, kst |-> {}, hasKst |-> FALSE,
     bookmarks |-> {}, bmNull |-> FALSE, col |-> "none"]

NoFile == [kind |-> "absent", db |-> EmptyDb]
PartialFile == [kind |-> "partial", db |-> EmptyDb]
StaleFile == [kind |-> "stale", db |-> EmptyDb]
DbFile(d) == [kind |-> "db", db |-> d]
Exists(file) == file.kind # "absent"

\* Timestamps a stored visit may carry: just below, at and just above the
\* cutoff the family gets for a one hour window at the initial clock.
TimesFor(f) ==
    LET c == FamilyCutoff(f, Now0, WindowHours) IN {c - 1, c, c + 1}

RowLeq(a, b) == a[1] < b[1] \/ (a[1] = b[1] /\ a[2] <= b[2])

\* Visit tables of at most MaxVisits rows, row ids 1..n.
VisitSets(f) ==
    UNION { { { [id |-> i, url |-> g[i][1], visit_time |-> g[i][2]] : i \in 1..n } :
              g \in { h \in [1..n -> PageIds \X TimesFor(f)] :
                        \A i \in 1..n : \A j \in 1..n : i < j => RowLeq(h[i], h[j]) } } :
            n \in 0..MaxVisits }

RichDbs(f) ==
    IF f \in Chromium
    THEN { [urls |-> u, visits |-> v, kst |-> k[2], hasKst |-> k[1],
            bookmarks |-> {}, bmNull |-> FALSE, col |-> c] :
             u \in SUBSET PageIds, v \in VisitSets(f),
             k \in ({TRUE} \X (SUBSET PageIds)) \cup {<<FALSE, {}>>},
             c \in Columns }
    ELSE { [urls |-> u, visits |-> v, kst |-> {}, hasKst |-> FALSE,
            bookmarks |-> b, bmNull |-> n, col |-> "none"] :
             u \in SUBSET PageIds, v \in VisitSets(f), b \in SUBSET PageIds,
             n \in BOOLEAN }

\* The stores of runs over several profiles: one page with one visit, which
\* is older than the cutoff ("old") or newer ("new", and "nocol": the visits
\* table has no page reference column and there is no keyword_search_terms).
Kinds == {"absent", "old", "new", "nocol"}

KindFile(f, kind) ==
    LET c == FamilyCutoff(f, Now0, WindowHours)
        t == IF kind = "old" THEN c - 1 ELSE c + 1
    IN  IF kind = "absent" THEN NoFile
        ELSE DbFile([urls |-> {1},
                     visits |-> {[id |-> 1, url |-> 1, visit_time |-> t]},
                     kst |-> {},
                     hasKst |-> f \in Chromium /\ kind # "nocol",
                     bookmarks |-> {},
                     bmNull |-> FALSE,
                     col |-> IF f \in Chromium /\ kind # "nocol" THEN "url" ELSE "none"])

\* ------------------------------------------------------- SQL on a database
Newer_inclusive(d, c) == { v \in d.visits : v.visit_time >= c }
\* WHERE visit_time > ?  (visit_date for Firefox)
Newer(d, c) == { v \in d.visits : v.visit_time > c }
VisitUrls(vs) == { v.url : v \in vs }

CountAllPages(d) == Cardinality(d.urls)
CountNewerVisits(d, c) == Cardinality(Newer(d, c))

DeleteAllPages(d) == [d EXCEPT !.urls = {}]
DeleteAllVisits(d) == [d EXCEPT !.visits = {}]
DeleteAllKst(d) == [d EXCEPT !.kst = {}]
DeleteNewerVisits_keepsNewer(d, c) == [d EXCEPT !.visits = Newer(d, c)]
DeleteNewerVisits(d, c) == [d EXCEPT !.visits = @ \ Newer(d, c)]
DeleteKstIn(d, ids) == [d EXCEPT !.kst = @ \ ids]
DeleteOrphanUrls_all(d) == [d EXCEPT !.urls = {}]
DeleteOrphanUrls(d) == [d EXCEPT !.urls = @ \cap VisitUrls(d.visits)]

\* x NOT IN (subquery): true only when the subquery yields no NULL and no x.
NotIn(x, ids, hasNull) == ~hasNull /\ x \notin ids

DeleteUnbookmarkedPlaces_all(d) == [d EXCEPT !.urls = {}]
DeleteUnbookmarkedPlaces(d) ==
    [d EXCEPT !.urls = { p \in @ : ~NotIn(p, d.bookmarks, d.bmNull) }]
DeleteOrphanPlaces(d) ==
    [d EXCEPT !.urls = { p \in @ : ~NotIn(p, VisitUrls(d.visits) \cup d.bookmarks,
                                          d.bmNull) }]


\* ------------------------------------------------------------------ state
VARIABLES
    args,                     \* families selected on the command line
    time_range,               \* cleaner.time_range: 0 (all time) or hours
    stores,                   \* per family, the live History file of each profile
    clock,                    \* time.time(), whole seconds
    pc,                       \* position in main / clean_<family>_data
    fam,                      \* position of main in FamilyOrder (1..4)
    idx,                      \* position of the profile loop in profile_dirs
    cutoff_times,             \* the dict returned by get_cutoff_time
    cutoff,                   \* chrome_cutoff / firefox_cutoff / brave_cutoff
    history_count,            \* local history_count of clean_<family>_data
    live, bak, tmp,           \* history_db, backup_path, temp_db of the store
    conn,                     \* the sqlite3 connection of the cycle
    url_id_column, count_before, url_ids,
    exc,                      \* the statement that raised, "" when none
    history_entries_removed, browsers_cleaned, errors,
    orig,                     \* history: the live file when the cycle began
    results,                  \* history: one MutationResult per ended cycle
    cleaned_count,            \* delete_hx: local cleaned_count of clean_<family>_history
    entries_removed,          \* delete_hx: self.entries_removed
    history_items,            \* delete_hx: History.db has a history_items table
    view_pc,                  \* view_cache: position of view_<family>_cache
    browser_visits            \* visits the owning browser committed during a cycle

inputs == <<args, time_range, stores>>
files == <<live, bak, tmp>>
locals == <<url_id_column, count_before, url_ids>>
totals == <<history_entries_removed, browsers_cleaned>>
\* State of the other scripts (delete_hx.py, view_cache.py) and of the browser.
outside == <<cleaned_count, entries_removed, history_items, view_pc, browser_visits>>
vars == <<args, time_range, stores, clock, pc, fam, idx, cutoff_times, cutoff,
          history_count,
          live, bak, tmp, conn, url_id_column, count_before, url_ids, exc,
          history_entries_removed, browsers_cleaned, errors, orig, results,
          cleaned_count, entries_removed, history_items, view_pc, browser_visits>>

NoConn == [state |-> "none", path |-> "", txn |-> FALSE, db |-> EmptyDb]
Family == FamilyOrder[fam]

InitRest ==
    /\ pc = "main"
    /\ fam = 1
    /\ idx = 1
    /\ cutoff_times = NoCutoffs
    /\ cutoff = 0
    /\ history_count = 0
    /\ live = NoFile /\ bak = NoFile /\ tmp = NoFile
    /\ conn = NoConn
    /\ url_id_column = "" /\ count_before = 0 /\ url_ids = {}
    /\ exc = ""
    /\ history_entries_removed = 0
    /\ browsers_cleaned = <<>>
    /\ errors = <<>>
    /\ orig = NoFile
    /\ results = <<>>
    /\ cleaned_count = 0
    /\ entries_removed = 0
    /\ history_items = FALSE
    /\ view_pc = "idle"
    /\ browser_visits = {}

\* One family with at most one profile, any store content.
Init ==
    /\ time_range \in {0, WindowHours}
    /\ clock = Now0
    /\ \E f \in Families :
          \E L \in {<<>>, <<NoFile>>} \cup { <<DbFile(d)>> : d \in RichDbs(f) } :
             /\ args = {f}
             /\ stores = [g \in Families |-> IF g = f THEN L ELSE <<>>]
    /\ InitRest

\* Any selection of families; every selected family has the same list of at
\* most MaxProfiles profiles.
Layouts == UNION { [1..n -> Kinds] : n \in 0..MaxProfiles }

RunInit ==
    /\ time_range \in {0, WindowHours}
    /\ clock = Now0
    /\ args \in (SUBSET Families) \ {{}}
    /\ \E L \in Layouts :
          stores = [f \in Families |->
                      IF f \in args THEN [i \in 1..Len(L) |-> KindFile(f, L[i])]
                      ELSE <<>>]
    /\ InitRest

\* ------------------------------------------------------------------- main
\* Time passes while a family is processed. The clock is read only when a
\* family starts, so it is advanced only while a selected family is still to come.
Elapsed ==
    {clock} \cup (IF /\ clock < Now0 + MaxTicks
                     /\ \E i \in (fam + 1)..3 : FamilyOrder[i] \in args
                  THEN {clock + 1} ELSE {})

SkipFamily ==
    /\ pc = "main" /\ fam <= 3 /\ Family \notin args
    /\ fam' = fam + 1
    /\ UNCHANGED <<inputs, outside, clock, pc, idx, cutoff_times, cutoff, history_count, files, conn,
                   locals, exc, totals, errors, orig, results>>

FamilyNotFound ==
    /\ pc = "main" /\ fam <= 3 /\ Family \in args
    /\ stores[Family] = <<>>
    /\ cutoff_times' = get_cutoff_time(clock, time_range)
    /\ cutoff' = FamilyCutoff(Family, clock, time_range)
    /\ history_count' = 0
    /\ fam' = fam + 1
    /\ UNCHANGED <<inputs, outside, clock, pc, idx, files, conn,
                   locals, exc, totals, errors, orig, results>>

StartFamily ==
    /\ pc = "main" /\ fam <= 3 /\ Family \in args
    /\ stores[Family] # <<>>
    /\ cutoff_times' = get_cutoff_time(clock, time_range)
    /\ cutoff' = FamilyCutoff(Family, clock, time_range)
    /\ history_count' = 0
    /\ idx' = 1
    /\ pc' = "loop"
    /\ UNCHANGED <<inputs, outside, clock, fam, files, conn,
                   locals, exc, totals, errors, orig, results>>

Finish ==
    /\ pc = "main" /\ fam = 4
    /\ pc' = "end"
    /\ UNCHANGED <<inputs, outside, clock, fam, idx, cutoff_times, cutoff, history_count, files, conn,
                   locals, exc, totals, errors, orig, results>>

\* ----------------------------------------------------------- profile loop
ProfileWithoutStore ==
    /\ pc = "loop" /\ idx <= Len(stores[Family])
    /\ ~Exists(stores[Family][idx])
    /\ idx' = idx + 1
    /\ UNCHANGED <<inputs, outside, clock, pc, fam, cutoff_times, cutoff, history_count, files, conn,
                   locals, exc, totals, errors, orig, results>>

BeginCycle ==
    /\ pc = "loop" /\ idx <= Len(stores[Family])
    /\ Exists(stores[Family][idx])
    /\ live' = stores[Family][idx]
    /\ bak' \in {NoFile, StaleFile}
    /\ tmp' \in {NoFile, StaleFile}
    /\ orig' = live'
    /\ conn' = NoConn
    /\ url_id_column' = "" /\ count_before' = 0 /\ url_ids' = {}
    /\ exc' = ""
    /\ pc' = "backup"
    /\ UNCHANGED <<inputs, outside, clock, fam, idx, cutoff_times, cutoff, history_count,
                   totals, errors, results>>

UpdateTotals ==
    /\ pc = "loop" /\ idx > Len(stores[Family])
    /\ history_entries_removed' = history_entries_removed + history_count
    /\ browsers_cleaned' = IF history_count > 0
                           THEN Append(browsers_cleaned, Family)
                           ELSE browsers_cleaned
    /\ clock' \in Elapsed
    /\ fam' = fam + 1
    /\ pc' = "main"
    /\ UNCHANGED <<inputs, outside, idx, cutoff_times, cutoff, history_count, files, conn,
                   locals, exc, errors, orig, results>>


\* ------------------------------------------------- the mutation cycle: files
ctrl == <<clock, fam, idx, cutoff_times, cutoff, history_count>>
report == <<history_entries_removed, browsers_cleaned, errors, results>>

\* shutil.copy2(history_db, backup_path)
BackupOk ==
    /\ pc = "backup"
    /\ bak' = live
    /\ pc' = "workcopy"
    /\ UNCHANGED <<inputs, outside, ctrl, live, tmp, conn, locals, exc, report, orig>>

\* A run injects faults (statements that raise for a reason outside the
\* store's content) into at most MaxFailures cycles.
MayRaise == Len(errors) < MaxFailures

BackupFails_carriesOn ==
    /\ pc = "backup"
    /\ Len(errors) < MaxFailures
    /\ bak' \in {bak, PartialFile}
    /\ exc' = "backup"
    /\ pc' = "workcopy"
    /\ UNCHANGED <<inputs, outside, ctrl, live, tmp, conn, locals, report, orig>>

\* The copy raises: the backup path keeps what it held or holds a truncated copy.
BackupFails ==
    /\ pc = "backup"
    /\ MayRaise
    /\ bak' \in {bak, PartialFile}
    /\ exc' = "backup"
    /\ pc' = "except"
    /\ UNCHANGED <<inputs, outside, ctrl, live, tmp, conn, locals, report, orig>>

\* if temp_db.exists(): os.remove(temp_db); shutil.copy2(history_db, temp_db)
WorkingCopyOk ==
    /\ pc = "workcopy"
    /\ tmp' = live
    /\ pc' = "connect"
    /\ UNCHANGED <<inputs, outside, ctrl, live, bak, conn, locals, exc, report, orig>>

\* os.remove raises (the stale file stays) or the copy raises (nothing or a
\* truncated copy at the working path).
WorkingCopyFails ==
    /\ pc = "workcopy"
    /\ MayRaise
    /\ \/ Exists(tmp) /\ tmp' = tmp
       \/ tmp' \in {NoFile, PartialFile}
    /\ exc' = "workcopy"
    /\ pc' = "except"
    /\ UNCHANGED <<inputs, outside, ctrl, live, bak, conn, locals, report, orig>>

ConnectTarget_live == "live"

\* The path handed to sqlite3.connect.
ConnectTarget == "temp"

FileAt(path) == IF path = "temp" THEN tmp ELSE live

Connect ==
    /\ pc = "connect"
    /\ Exists(FileAt(ConnectTarget))
    /\ conn' = [state |-> "open", path |-> ConnectTarget, txn |-> FALSE,
                db |-> FileAt(ConnectTarget).db]
    /\ pc' = IF Family \in Chromium THEN "probe" ELSE "ff_count"
    /\ UNCHANGED <<inputs, outside, ctrl, files, locals, exc, report, orig>>

\* ---------------------------------------------- the mutation cycle: SQL
AfterCount_visitsFirst == IF time_range = 0 THEN "del_visits" ELSE "sel_ids"

\* The first statement after the count (and Brave's BEGIN).
AfterCount == IF time_range = 0 THEN "del_urls" ELSE "sel_ids"

\* A statement that writes starts a write transaction unless one is open;
\* sqlite refuses to start one on a file that has no path any more.
Writable == conn.path # "unlinked" \/ conn.txn

\* A DML statement opens the implicit transaction of the sqlite3 module.
Dml(d) == [conn EXCEPT !.db = d, !.txn = TRUE]

\* PRAGMA table_info(visits); url_id_column = "url_id" if present else "url"
Probe ==
    /\ pc = "probe"
    /\ url_id_column' = IF conn.db.col = "url_id" THEN "url_id" ELSE "url"
    /\ pc' = "count"
    /\ UNCHANGED <<inputs, outside, ctrl, files, conn, count_before, url_ids, exc, report, orig>>

Count ==
    /\ pc = "count"
    /\ count_before' = IF time_range = 0
                       THEN CountAllPages(conn.db)
                       ELSE CountNewerVisits(conn.db, cutoff)
    /\ pc' = IF Family = "Brave" THEN "begin" ELSE AfterCount
    /\ UNCHANGED <<inputs, outside, ctrl, files, conn, url_id_column, url_ids, exc, report, orig>>

\* Brave only: conn.execute("BEGIN IMMEDIATE TRANSACTION")
Begin ==
    /\ pc = "begin"
    /\ Writable
    /\ conn' = [conn EXCEPT !.txn = TRUE]
    /\ pc' = AfterCount
    /\ UNCHANGED <<inputs, outside, ctrl, files, locals, exc, report, orig>>

DeleteUrlsAll ==
    /\ pc = "del_urls"
    /\ Writable
    /\ conn' = Dml(DeleteAllPages(conn.db))
    /\ pc' = "del_visits"
    /\ UNCHANGED <<inputs, outside, ctrl, files, locals, exc, report, orig>>

DeleteVisitsAll ==
    /\ pc = "del_visits"
    /\ Writable
    /\ conn' = Dml(DeleteAllVisits(conn.db))
    /\ pc' = "del_kst"
    /\ UNCHANGED <<inputs, outside, ctrl, files, locals, exc, report, orig>>

DeleteKstAll ==
    /\ pc = "del_kst"
    /\ Writable
    /\ conn.db.hasKst
    /\ conn' = Dml(DeleteAllKst(conn.db))
    /\ pc' = "commit"
    /\ UNCHANGED <<inputs, outside, ctrl, files, locals, exc, report, orig>>

\* SELECT {url_id_column} FROM visits WHERE visit_time > ?
SelectUrlIds ==
    /\ pc = "sel_ids"
    /\ conn.db.col = url_id_column
    /\ url_ids' = VisitUrls(Newer(conn.db, cutoff))
    /\ pc' = IF url_ids' = {} THEN "commit" ELSE "del_visits_t"
    /\ UNCHANGED <<inputs, outside, ctrl, files, conn, url_id_column, count_before, exc, report, orig>>

\* The visits table has neither url_id nor url: "no such column".
SelectUrlIdsNoColumn ==
    /\ pc = "sel_ids"
    /\ conn.db.col # url_id_column
    /\ exc' = "sel_ids"
    /\ pc' = "except"
    /\ UNCHANGED <<inputs, outside, ctrl, files, conn, locals, report, orig>>

DeleteVisitsNewer ==
    /\ pc = "del_visits_t"
    /\ Writable
    /\ conn' = Dml(DeleteNewerVisits(conn.db, cutoff))
    /\ pc' = "del_kst_t"
    /\ UNCHANGED <<inputs, outside, ctrl, files, locals, exc, report, orig>>

\* if the table exists: DELETE FROM keyword_search_terms WHERE url_id IN (url_ids)
DeleteKstOfUrlIds ==
    /\ pc = "del_kst_t"
    /\ Writable
    /\ conn' = IF conn.db.hasKst THEN Dml(DeleteKstIn(conn.db, url_ids)) ELSE conn
    /\ pc' = "del_orphans"
    /\ UNCHANGED <<inputs, outside, ctrl, files, locals, exc, report, orig>>

KstErrorSwallowed_raises ==
    /\ pc \in {"del_kst", "del_kst_t"}
    /\ exc' = pc
    /\ pc' = "except"
    /\ UNCHANGED <<inputs, outside, ctrl, files, conn, locals, report, orig>>

\* try: ... except: pass  -- an error of a keyword_search_terms statement
\* (the table does not exist, or any other) is swallowed.
KstErrorSwallowed ==
    /\ pc \in {"del_kst", "del_kst_t"}
    /\ pc' = IF pc = "del_kst" THEN "commit" ELSE "del_orphans"
    /\ UNCHANGED <<inputs, outside, ctrl, files, conn, locals, exc, report, orig>>

DeleteOrphanedUrls ==
    /\ pc = "del_orphans"
    /\ Writable
    /\ conn' = Dml(DeleteOrphanUrls(conn.db))
    /\ pc' = "commit"
    /\ UNCHANGED <<inputs, outside, ctrl, files, locals, exc, report, orig>>

\* Firefox
FfCount ==
    /\ pc = "ff_count"
    /\ count_before' = IF time_range = 0
                       THEN CountAllPages(conn.db)
                       ELSE CountNewerVisits(conn.db, cutoff)
    /\ pc' = IF time_range = 0 THEN "ff_del_visits" ELSE "ff_sel"
    /\ UNCHANGED <<inputs, outside, ctrl, files, conn, url_id_column, url_ids, exc, report, orig>>

FfDeleteVisitsAll ==
    /\ pc = "ff_del_visits"
    /\ Writable
    /\ conn' = Dml(DeleteAllVisits(conn.db))
    /\ pc' = "ff_del_places"
    /\ UNCHANGED <<inputs, outside, ctrl, files, locals, exc, report, orig>>

FfDeleteUnbookmarked ==
    /\ pc = "ff_del_places"
    /\ Writable
    /\ conn' = Dml(DeleteUnbookmarkedPlaces(conn.db))
    /\ pc' = "commit"
    /\ UNCHANGED <<inputs, outside, ctrl, files, locals, exc, report, orig>>

\* SELECT place_id ... : the rows are never fetched.
FfSelect ==
    /\ pc = "ff_sel"
    /\ pc' = "ff_del_visits_t"
    /\ UNCHANGED <<inputs, outside, ctrl, files, conn, locals, exc, report, orig>>

FfDeleteVisitsNewer ==
    /\ pc = "ff_del_visits_t"
    /\ Writable
    /\ conn' = Dml(DeleteNewerVisits(conn.db, cutoff))
    /\ pc' = "ff_del_orphans"
    /\ UNCHANGED <<inputs, outside, ctrl, files, locals, exc, report, orig>>

FfDeleteOrphans ==
    /\ pc = "ff_del_orphans"
    /\ Writable
    /\ conn' = Dml(DeleteOrphanPlaces(conn.db))
    /\ pc' = "commit"
    /\ UNCHANGED <<inputs, outside, ctrl, files, locals, exc, report, orig>>

Commit_leavesTransaction ==
    /\ pc = "commit"
    /\ conn' = conn
    /\ IF conn.path = "temp"
       THEN tmp' = DbFile(conn.db) /\ live' = live
       ELSE IF conn.path = "live"
       THEN live' = DbFile(conn.db) /\ tmp' = tmp
       ELSE live' = live /\ tmp' = tmp
    /\ pc' = "vacuum"
    /\ UNCHANGED <<inputs, outside, ctrl, bak, locals, exc, report, orig>>

\* conn.commit(): the statements of the transaction reach the connected file
\* (no path when that file was unlinked by another process meanwhile).
Commit ==
    /\ pc = "commit"
    /\ conn' = [conn EXCEPT !.txn = FALSE]
    /\ IF conn.path = "temp"
       THEN tmp' = DbFile(conn.db) /\ live' = live
       ELSE IF conn.path = "live"
       THEN live' = DbFile(conn.db) /\ tmp' = tmp
       ELSE live' = live /\ tmp' = tmp
    /\ pc' = "vacuum"
    /\ UNCHANGED <<inputs, outside, ctrl, bak, locals, exc, report, orig>>

Vacuum_thenCommit ==
    /\ pc = "vacuum"
    /\ Writable
    /\ IF conn.txn
       THEN exc' = "vacuum" /\ pc' = "except"
       ELSE exc' = exc /\ pc' = "commit"
    /\ UNCHANGED <<inputs, outside, ctrl, files, conn, locals, report, orig>>

\* conn.execute("VACUUM"): rows are unchanged; refused inside a transaction.
Vacuum ==
    /\ pc = "vacuum"
    /\ Writable
    /\ IF conn.txn
       THEN exc' = "vacuum" /\ pc' = "except"
       ELSE exc' = exc /\ pc' = "close"
    /\ UNCHANGED <<inputs, outside, ctrl, files, conn, locals, report, orig>>

Close ==
    /\ pc = "close"
    /\ conn' = [conn EXCEPT !.state = "closed"]
    /\ pc' = "rm_live"
    /\ UNCHANGED <<inputs, outside, ctrl, files, locals, exc, report, orig>>

\* Any statement may raise before it has an effect (I/O error, locked or
\* malformed database, permission).
RaisingSteps ==
    {"connect", "probe", "count", "begin", "del_urls", "del_visits", "sel_ids",
     "del_visits_t", "del_orphans", "ff_count", "ff_del_visits", "ff_del_places",
     "ff_sel", "ff_del_visits_t", "ff_del_orphans", "commit", "vacuum", "close",
     "rm_live", "rm_bak"}

StatementRaises ==
    /\ pc \in RaisingSteps
    /\ MayRaise
    /\ exc' = pc
    /\ pc' = "except"
    /\ UNCHANGED <<inputs, outside, ctrl, files, conn, locals, report, orig>>


\* ---------------------------------------------- the mutation cycle: swap
RemoveLive_andBackup ==
    /\ pc = "rm_live"
    /\ live' = NoFile
    /\ bak' = NoFile
    /\ pc' = "move"
    /\ UNCHANGED <<inputs, outside, ctrl, tmp, conn, locals, exc, report, orig>>

\* os.remove(history_db)
RemoveLive ==
    /\ pc = "rm_live"
    /\ live' = NoFile
    /\ pc' = "move"
    /\ UNCHANGED <<inputs, outside, ctrl, bak, tmp, conn, locals, exc, report, orig>>

\* shutil.move(temp_db, history_db): os.rename within the profile directory.
MoveOk ==
    /\ pc = "move"
    /\ Exists(tmp)
    /\ live' = tmp
    /\ tmp' = NoFile
    /\ pc' = "rm_bak"
    /\ UNCHANGED <<inputs, outside, ctrl, bak, conn, locals, exc, report, orig>>

\* The rename raises and so does the copy2 + unlink that shutil.move falls
\* back to: nothing, a truncated copy or (unlink raised) a full copy is at the
\* live path, and the working copy stays.
MoveFails ==
    /\ pc = "move"
    /\ MayRaise
    /\ live' \in {NoFile, PartialFile, tmp}
    /\ exc' = "move"
    /\ pc' = "except"
    /\ UNCHANGED <<inputs, outside, ctrl, bak, tmp, conn, locals, report, orig>>

RemoveBackup_skipped ==
    /\ pc = "rm_bak"
    /\ bak' = bak
    /\ pc' = "tally"
    /\ UNCHANGED <<inputs, outside, ctrl, live, tmp, conn, locals, exc, report, orig>>

\* if backup_path.exists(): os.remove(backup_path)
RemoveBackup ==
    /\ pc = "rm_bak"
    /\ bak' = NoFile
    /\ pc' = "tally"
    /\ UNCHANGED <<inputs, outside, ctrl, live, tmp, conn, locals, exc, report, orig>>

\* restored: "" (no restore attempted), "ok" or "raised".
Result(ok, n, cause, restored) ==
    [family |-> Family, profile |-> idx, succeeded |-> ok,
     rowsRemoved |-> n, cause |-> cause, restored |-> restored]

\* history_count += count_before
Tally ==
    /\ pc = "tally"
    /\ history_count' = history_count + count_before
    /\ results' = Append(results, Result(TRUE, count_before, "", ""))
    /\ idx' = idx + 1
    /\ pc' = "loop"
    /\ UNCHANGED <<inputs, outside, clock, fam, cutoff_times, cutoff, files, conn, locals, exc,
                   totals, errors, orig>>

\* ------------------------------------------------------- the except block
RestoreNeeded_any == Exists(bak)

\* if backup_path.exists() and not history_db.exists()
RestoreNeeded == Exists(bak) /\ ~Exists(live)

RestoreSource_tmp == tmp

\* shutil.copy2(backup_path, history_db): what the restore copies.
RestoreSource == bak

CycleError ==
    [family |-> Family, profile |-> idx, kind |-> "cleaning_history", cause |-> exc]

\* What main records when clean_<family>_data itself raises.
UnexpectedError ==
    [family |-> Family, profile |-> 0, kind |-> "unexpected", cause |-> "restore"]

HandlerRecords ==
    /\ pc = "except"
    /\ ~RestoreNeeded
    /\ errors' = Append(errors, CycleError)
    /\ results' = Append(results, Result(FALSE, 0, exc, ""))
    /\ idx' = idx + 1
    /\ pc' = "loop"
    /\ UNCHANGED <<inputs, outside, clock, fam, cutoff_times, cutoff, history_count, files, conn,
                   locals, exc, totals, orig>>

HandlerRestores_movesBackup ==
    /\ pc = "except"
    /\ RestoreNeeded
    /\ live' = bak
    /\ bak' = NoFile
    /\ errors' = Append(errors, CycleError)
    /\ results' = Append(results, Result(FALSE, 0, exc, "ok"))
    /\ idx' = idx + 1
    /\ pc' = "loop"
    /\ UNCHANGED <<inputs, outside, clock, fam, cutoff_times, cutoff, history_count, tmp, conn,
                   locals, exc, totals, orig>>

HandlerRestores ==
    /\ pc = "except"
    /\ RestoreNeeded
    /\ live' = RestoreSource
    /\ errors' = Append(errors, CycleError)
    /\ results' = Append(results, Result(FALSE, 0, exc, "ok"))
    /\ idx' = idx + 1
    /\ pc' = "loop"
    /\ UNCHANGED <<inputs, outside, clock, fam, cutoff_times, cutoff, history_count, bak, tmp, conn,
                   locals, exc, totals, orig>>

\* shutil.copy2(backup_path, history_db) raises inside the except block: the
\* exception leaves clean_<family>_data and is caught by main, which records
\* it and goes on with the next family.
HandlerRestoreRaises ==
    /\ pc = "except"
    /\ RestoreNeeded
    /\ live' \in {NoFile, PartialFile}
    /\ errors' = Append(errors, UnexpectedError)
    /\ results' = Append(results, Result(FALSE, 0, exc, "raised"))
    /\ clock' \in Elapsed
    /\ fam' = fam + 1
    /\ pc' = "main"
    /\ UNCHANGED <<inputs, outside, idx, cutoff_times, cutoff, history_count, bak, tmp, conn,
                   locals, exc, totals, orig>>

\* ------------------------------------------------------------------- next
Next ==
    \/ SkipFamily \/ FamilyNotFound \/ StartFamily \/ Finish
    \/ ProfileWithoutStore \/ BeginCycle \/ UpdateTotals
    \/ BackupOk \/ BackupFails \/ WorkingCopyOk \/ WorkingCopyFails \/ Connect
    \/ Probe \/ Count \/ Begin
    \/ DeleteUrlsAll \/ DeleteVisitsAll \/ DeleteKstAll
    \/ SelectUrlIds \/ SelectUrlIdsNoColumn \/ DeleteVisitsNewer
    \/ DeleteKstOfUrlIds \/ KstErrorSwallowed \/ DeleteOrphanedUrls
    \/ FfCount \/ FfDeleteVisitsAll \/ FfDeleteUnbookmarked
    \/ FfSelect \/ FfDeleteVisitsNewer \/ FfDeleteOrphans
    \/ Commit \/ Vacuum \/ Close \/ StatementRaises
    \/ RemoveLive \/ MoveOk \/ MoveFails \/ RemoveBackup \/ Tally
    \/ HandlerRecords \/ HandlerRestores \/ HandlerRestoreRaises

Spec == Init /\ [][Next]_vars

RunSpec == RunInit /\ [][Next]_vars

\* ------------------------------------------------------ a second invocation
\* After a run that pruned its store the program is started again (a new
\* process: main builds a new BrowserDataCleaner) with the same arguments, at
\* the same clock reading, on the store that run left at the live path.
RunAgain ==
    /\ pc = "end"
    /\ results # <<>> /\ Len(results) < MaxRuns
    /\ results[Len(results)].succeeded
    /\ stores' = [stores EXCEPT
                    ![results[Len(results)].family][results[Len(results)].profile] = live]
    /\ pc' = "main" /\ fam' = 1 /\ idx' = 1
    /\ cutoff_times' = NoCutoffs /\ cutoff' = 0
    /\ history_count' = 0
    /\ conn' = NoConn
    /\ url_id_column' = "" /\ count_before' = 0 /\ url_ids' = {}
    /\ exc' = ""
    /\ history_entries_removed' = 0
    /\ browsers_cleaned' = <<>>
    /\ errors' = <<>>
    /\ UNCHANGED <<args, time_range, clock, files, orig, results, outside>>

TwiceNext == Next \/ RunAgain

TwiceSpec == Init /\ [][TwiceNext]_vars

\* ------------------------------------------------ get_cutoff_time on its own
\* Runs in which no selected family is installed: each routine calls
\* get_cutoff_time and returns. The window is 0..MaxHours hours and the clock
\* reads up to MaxNow seconds more than the window is long.
CutoffInit ==
    /\ time_range \in 0..MaxHours
    /\ clock \in { (time_range * HourSeconds) + d : d \in 0..MaxNow }
    /\ args \in (SUBSET Families) \ {{}}
    /\ stores = [f \in Families |-> <<>>]
    /\ InitRest

CutoffNext == SkipFamily \/ FamilyNotFound \/ Finish

CutoffSpec == CutoffInit /\ [][CutoffNext]_vars

TypeOK ==
    /\ pc \in {"main", "loop", "end", "backup", "workcopy", "except", "move", "tally"}
              \cup RaisingSteps \cup {"del_kst", "del_kst_t"}
    /\ fam \in 1..4
    /\ conn.state \in {"none", "open", "closed"}
    /\ live.kind \in {"absent", "db", "partial"}
    /\ bak.kind \in {"absent", "db", "partial", "stale"}
    /\ tmp.kind \in {"absent", "db", "partial", "stale"}


\* =================================================== delete_hx.py (all time)
\* BrowserHistoryCleaner: clean_all_history runs clean_safari_history,
\* clean_chrome_history, clean_firefox_history and clean_brave_history, each
\* clearing whole tables. The run uses stores, pc, fam, idx, the files, conn,
\* count_before, exc, errors, browsers_cleaned, orig and results as the
\* browser_cleaner run does, and cleaned_count / entries_removed for its own
\* counters. Safari's store is the list History.db, HistoryIndex.sk,
\* TopSites.plist; history_items and history_visits are the urls and visits
\* tables of the record.
HxFamilyOrder == <<"Safari", "Chrome", "Firefox", "Brave">>
HxFamilies == Families \cup {"Safari"}
HxFamily == HxFamilyOrder[fam]
PlainFile == [kind |-> "plain", db |-> EmptyDb]

SafariDbs ==
    { [EmptyDb EXCEPT !.urls = u,
                      !.visits = { [id |-> p, url |-> p, visit_time |-> 0] : p \in u }] :
        u \in SUBSET PageIds }

SafariLayouts ==
    { <<h, i, t>> : h \in {NoFile} \cup { DbFile(d) : d \in SafariDbs },
                    i \in {NoFile, PlainFile}, t \in {NoFile, PlainFile} }

\* delete_hx clears whole tables: what a store holds besides its rows makes no
\* difference to a run over several profiles.
HxKinds == {"absent", "new"}
HxLayouts == UNION { [1..n -> HxKinds] : n \in 0..MaxProfiles }

HxInit ==
    /\ args = {} /\ time_range = 0 /\ clock = Now0
    /\ \/ \E f \in Families : \E d \in RichDbs(f) :
             /\ stores = [g \in HxFamilies |->
                            IF g = f THEN <<DbFile(d)>>
                            ELSE IF g = "Safari" THEN <<NoFile, NoFile, NoFile>>
                            ELSE <<>>]
             /\ history_items = FALSE
       \/ \E L \in HxLayouts : \E S \in SafariLayouts :
             /\ stores = [g \in HxFamilies |->
                            IF g = "Safari" THEN S
                            ELSE [i \in 1..Len(L) |-> KindFile(g, L[i])]]
             /\ history_items \in BOOLEAN
    /\ pc = "hx_start"
    /\ fam = 1 /\ idx = 1
    /\ cutoff_times = NoCutoffs /\ cutoff = 0 /\ history_count = 0
    /\ live = NoFile /\ bak = NoFile /\ tmp = NoFile
    /\ conn = NoConn
    /\ url_id_column = "" /\ count_before = 0 /\ url_ids = {}
    /\ exc = ""
    /\ history_entries_removed = 0
    /\ browsers_cleaned = <<>>
    /\ errors = <<>>
    /\ orig = NoFile
    /\ results = <<>>
    /\ cleaned_count = 0
    /\ entries_removed = 0
    /\ view_pc = "idle"
    /\ browser_visits = {}

\* What no delete_hx step changes.
hxfixed == <<args, time_range, clock, cutoff_times, cutoff, history_count,
             url_id_column, url_ids, history_entries_removed, history_items,
             view_pc, browser_visits>>

\* VACUUM raises by itself; every other raise is an injected fault, recorded in
\* errors or (the swallowed raise of a restore copy) in results.
HxFaults ==
    Cardinality({ i \in DOMAIN errors : errors[i].cause \notin {"hx_vacuum", "sf_vacuum"} })
    + Cardinality({ i \in DOMAIN results : results[i].restored = "raised" })
HxMayRaise == HxFaults < MaxFailures

HxResult(ok, n, cause, restored) ==
    [family |-> HxFamily, profile |-> idx, succeeded |-> ok,
     rowsRemoved |-> n, cause |-> cause, restored |-> restored]

HxError(kind, cause) ==
    [family |-> HxFamily, profile |-> idx, kind |-> kind, cause |-> cause]

\* if self.confirm_deletion: response = input(...); if response != 'y': return
HxAskConfirmation ==
    /\ pc = "hx_start"
    /\ \E confirm_deletion \in BOOLEAN : \E response \in {"y", "n"} :
          pc' = IF confirm_deletion /\ response # "y" THEN "hx_end" ELSE "hx_main"
    /\ UNCHANGED <<hxfixed, stores, fam, idx, files, conn, count_before, exc,
                   browsers_cleaned, errors, orig, results, cleaned_count, entries_removed>>

\* ------------------------------------------------------ clean_safari_history
SafariStart ==
    /\ pc = "hx_main" /\ fam = 1
    /\ cleaned_count' = 0
    /\ idx' = 1
    /\ pc' = "sf_loop"
    /\ UNCHANGED <<hxfixed, stores, fam, files, conn, count_before, exc,
                   browsers_cleaned, errors, orig, results, entries_removed>>

\* if not path.exists(): continue
SafariPathAbsent ==
    /\ pc = "sf_loop" /\ idx <= 3
    /\ ~Exists(stores["Safari"][idx])
    /\ idx' = idx + 1
    /\ UNCHANGED <<hxfixed, stores, pc, fam, files, conn, count_before, exc,
                   browsers_cleaned, errors, orig, results, cleaned_count, entries_removed>>

\* History.db exists; History.db.bak may be there from an earlier run.
SafariBeginDb ==
    /\ pc = "sf_loop" /\ idx = 1
    /\ Exists(stores["Safari"][idx])
    /\ live' = stores["Safari"][idx]
    /\ bak' \in {NoFile, StaleFile}
    /\ tmp' = NoFile
    /\ orig' = live'
    /\ conn' = NoConn
    /\ count_before' = 0
    /\ exc' = ""
    /\ pc' = "sf_backup"
    /\ UNCHANGED <<hxfixed, stores, fam, idx, browsers_cleaned, errors, results,
                   cleaned_count, entries_removed>>

SafariBackupOk ==
    /\ pc = "sf_backup"
    /\ bak' = live
    /\ pc' = "sf_connect"
    /\ UNCHANGED <<hxfixed, stores, fam, idx, live, tmp, conn, count_before, exc,
                   browsers_cleaned, errors, orig, results, cleaned_count, entries_removed>>

SafariBackupFails ==
    /\ pc = "sf_backup"
    /\ HxMayRaise
    /\ bak' \in {bak, PartialFile}
    /\ exc' = "sf_backup"
    /\ pc' = "sf_except"
    /\ UNCHANGED <<hxfixed, stores, fam, idx, live, tmp, conn, count_before,
                   browsers_cleaned, errors, orig, results, cleaned_count, entries_removed>>

\* conn = sqlite3.connect(str(path))
SafariConnectTarget == "live"

SafariConnect ==
    /\ pc = "sf_connect"
    /\ conn' = [state |-> "open", path |-> SafariConnectTarget, txn |-> FALSE,
                db |-> live.db]
    /\ pc' = "sf_probe"
    /\ UNCHANGED <<hxfixed, stores, fam, idx, files, count_before, exc,
                   browsers_cleaned, errors, orig, results, cleaned_count, entries_removed>>

\* SELECT name FROM sqlite_master WHERE type='table' AND name='history_items'
SafariProbe ==
    /\ pc = "sf_probe"
    /\ pc' = IF history_items THEN "sf_count" ELSE "sf_close"
    /\ UNCHANGED <<hxfixed, stores, fam, idx, files, conn, count_before, exc,
                   browsers_cleaned, errors, orig, results, cleaned_count, entries_removed>>

SafariCount ==
    /\ pc = "sf_count"
    /\ count_before' = CountAllPages(conn.db)
    /\ pc' = "sf_del_items"
    /\ UNCHANGED <<hxfixed, stores, fam, idx, files, conn, exc,
                   browsers_cleaned, errors, orig, results, cleaned_count, entries_removed>>

SafariDeleteItems ==
    /\ pc = "sf_del_items"
    /\ conn' = Dml(DeleteAllPages(conn.db))
    /\ pc' = "sf_del_visits"
    /\ UNCHANGED <<hxfixed, stores, fam, idx, files, count_before, exc,
                   browsers_cleaned, errors, orig, results, cleaned_count, entries_removed>>

SafariDeleteVisits ==
    /\ pc = "sf_del_visits"
    /\ conn' = Dml(DeleteAllVisits(conn.db))
    /\ pc' = "sf_vacuum"
    /\ UNCHANGED <<hxfixed, stores, fam, idx, files, count_before, exc,
                   browsers_cleaned, errors, orig, results, cleaned_count, entries_removed>>

\* cursor.execute("VACUUM") comes before conn.commit(): the transaction the
\* DELETE opened is still open and sqlite refuses. conn.commit() and
\* cleaned_count += count_before (lines 60-61) are never reached.
SafariVacuum ==
    /\ pc = "sf_vacuum"
    /\ IF conn.txn
       THEN exc' = "sf_vacuum" /\ pc' = "sf_except"
       ELSE exc' = exc /\ pc' = "sf_commit"
    /\ UNCHANGED <<hxfixed, stores, fam, idx, files, conn, count_before,
                   browsers_cleaned, errors, orig, results, cleaned_count, entries_removed>>

\* conn.close() when there is no history_items table: nothing was deleted.
SafariClose ==
    /\ pc = "sf_close"
    /\ conn' = [conn EXCEPT !.state = "closed"]
    /\ results' = Append(results, HxResult(TRUE, 0, "", ""))
    /\ idx' = idx + 1
    /\ pc' = "sf_loop"
    /\ UNCHANGED <<hxfixed, stores, fam, files, count_before, exc,
                   browsers_cleaned, errors, orig, cleaned_count, entries_removed>>

\* except Exception as e: self.errors.append(...). No restore; the connection
\* stays open on the live file with its transaction uncommitted.
SafariDbError ==
    /\ pc = "sf_except"
    /\ errors' = Append(errors, HxError("cleaning", exc))
    /\ results' = Append(results, HxResult(FALSE, 0, exc, ""))
    /\ idx' = idx + 1
    /\ pc' = "sf_loop"
    /\ UNCHANGED <<hxfixed, stores, fam, files, conn, count_before, exc,
                   browsers_cleaned, orig, cleaned_count, entries_removed>>

\* os.remove(path); cleaned_count += 1   (HistoryIndex.sk, TopSites.plist)
SafariRemoveFile ==
    /\ pc = "sf_loop" /\ idx \in {2, 3}
    /\ Exists(stores["Safari"][idx])
    /\ stores' = [stores EXCEPT !["Safari"][idx] = NoFile]
    /\ cleaned_count' = cleaned_count + 1
    /\ idx' = idx + 1
    /\ UNCHANGED <<hxfixed, pc, fam, files, conn, count_before, exc,
                   browsers_cleaned, errors, orig, results, entries_removed>>

SafariRemoveFails ==
    /\ pc = "sf_loop" /\ idx \in {2, 3}
    /\ Exists(stores["Safari"][idx])
    /\ HxMayRaise
    /\ errors' = Append(errors, HxError("removing", "remove"))
    /\ idx' = idx + 1
    /\ UNCHANGED <<hxfixed, stores, pc, fam, files, conn, count_before, exc,
                   browsers_cleaned, orig, results, cleaned_count, entries_removed>>

\* subprocess.run(['osascript', ...]) does not check the exit status;
\* cleaned_count += 1 follows whatever the script did.
SafariAppleScript ==
    /\ pc = "sf_loop" /\ idx = 4
    /\ cleaned_count' = cleaned_count + 1
    /\ pc' = "sf_totals"
    /\ UNCHANGED <<hxfixed, stores, fam, idx, files, conn, count_before, exc,
                   browsers_cleaned, errors, orig, results, entries_removed>>

\* subprocess.run raises (no osascript on the path).
SafariAppleScriptFails ==
    /\ pc = "sf_loop" /\ idx = 4
    /\ HxMayRaise
    /\ errors' = Append(errors, HxError("applescript", "osascript"))
    /\ pc' = "sf_totals"
    /\ UNCHANGED <<hxfixed, stores, fam, idx, files, conn, count_before, exc,
                   browsers_cleaned, orig, results, cleaned_count, entries_removed>>

\* self.entries_removed += cleaned_count; self.browsers_cleaned.append("Safari")
SafariTotals ==
    /\ pc = "sf_totals"
    /\ entries_removed' = entries_removed + cleaned_count
    /\ browsers_cleaned' = Append(browsers_cleaned, "Safari")
    /\ fam' = fam + 1
    /\ pc' = "hx_main"
    /\ UNCHANGED <<hxfixed, stores, idx, files, conn, count_before, exc,
                   errors, orig, results, cleaned_count>>

\* ------------------------- clean_chrome_history / _firefox_ / _brave_history
\* "not found on this system" / "No profiles found": return before the totals.
HxFamilyNotFound ==
    /\ pc = "hx_main" /\ fam \in 2..4
    /\ stores[HxFamily] = <<>>
    /\ cleaned_count' = 0
    /\ fam' = fam + 1
    /\ UNCHANGED <<hxfixed, stores, pc, idx, files, conn, count_before, exc,
                   browsers_cleaned, errors, orig, results, entries_removed>>

HxStartFamily ==
    /\ pc = "hx_main" /\ fam \in 2..4
    /\ stores[HxFamily] # <<>>
    /\ cleaned_count' = 0
    /\ idx' = 1
    /\ pc' = "hx_loop"
    /\ UNCHANGED <<hxfixed, stores, fam, files, conn, count_before, exc,
                   browsers_cleaned, errors, orig, results, entries_removed>>

HxFinish ==
    /\ pc = "hx_main" /\ fam = 5
    /\ pc' = "hx_end"
    /\ UNCHANGED <<hxfixed, stores, fam, idx, files, conn, count_before, exc,
                   browsers_cleaned, errors, orig, results, cleaned_count, entries_removed>>

\* if history_db.exists(): ... (nothing otherwise)
HxProfileWithoutStore ==
    /\ pc = "hx_loop" /\ idx <= Len(stores[HxFamily])
    /\ ~Exists(stores[HxFamily][idx])
    /\ idx' = idx + 1
    /\ UNCHANGED <<hxfixed, stores, pc, fam, files, conn, count_before, exc,
                   browsers_cleaned, errors, orig, results, cleaned_count, entries_removed>>

\* The store exists. No delete_hx statement removes a backup, so the backup
\* path holds a file whenever an earlier run got that far.
HxBeginCycle ==
    /\ pc = "hx_loop" /\ idx <= Len(stores[HxFamily])
    /\ Exists(stores[HxFamily][idx])
    /\ live' = stores[HxFamily][idx]
    /\ bak' \in {NoFile, StaleFile}
    /\ tmp' \in {NoFile, StaleFile}
    /\ orig' = live'
    /\ conn' = NoConn
    /\ count_before' = 0
    /\ exc' = ""
    /\ pc' = "hx_backup"
    /\ UNCHANGED <<hxfixed, stores, fam, idx, browsers_cleaned, errors, results,
                   cleaned_count, entries_removed>>

\* backup_path = history_db.with_suffix(".bak"); shutil.copy2(history_db, backup_path)
HxBackupOk ==
    /\ pc = "hx_backup"
    /\ bak' = live
    /\ pc' = "hx_workcopy"
    /\ UNCHANGED <<hxfixed, stores, fam, idx, live, tmp, conn, count_before, exc,
                   browsers_cleaned, errors, orig, results, cleaned_count, entries_removed>>

\* The copy raises: the backup path keeps what it held or holds a truncated copy.
HxBackupFails ==
    /\ pc = "hx_backup"
    /\ HxMayRaise
    /\ bak' \in {bak, PartialFile}
    /\ exc' = "hx_backup"
    /\ pc' = "hx_except"
    /\ UNCHANGED <<hxfixed, stores, fam, idx, live, tmp, conn, count_before,
                   browsers_cleaned, errors, orig, results, cleaned_count, entries_removed>>

\* if temp_db.exists(): os.remove(temp_db); shutil.copy2(history_db, temp_db)
HxWorkingCopyOk ==
    /\ pc = "hx_workcopy"
    /\ tmp' = live
    /\ pc' = "hx_connect"
    /\ UNCHANGED <<hxfixed, stores, fam, idx, live, bak, conn, count_before, exc,
                   browsers_cleaned, errors, orig, results, cleaned_count, entries_removed>>

HxWorkingCopyFails ==
    /\ pc = "hx_workcopy"
    /\ HxMayRaise
    /\ \/ Exists(tmp) /\ tmp' = tmp
       \/ tmp' \in {NoFile, PartialFile}
    /\ exc' = "hx_workcopy"
    /\ pc' = "hx_except"
    /\ UNCHANGED <<hxfixed, stores, fam, idx, live, bak, conn, count_before,
                   browsers_cleaned, errors, orig, results, cleaned_count, entries_removed>>

\* conn = sqlite3.connect(str(temp_db))
HxConnect ==
    /\ pc = "hx_connect"
    /\ conn' = [state |-> "open", path |-> "temp", txn |-> FALSE, db |-> tmp.db]
    /\ pc' = "hx_count"
    /\ UNCHANGED <<hxfixed, stores, fam, idx, files, count_before, exc,
                   browsers_cleaned, errors, orig, results, cleaned_count, entries_removed>>

\* SELECT COUNT(*) FROM urls / moz_places
HxCount ==
    /\ pc = "hx_count"
    /\ count_before' = CountAllPages(conn.db)
    /\ pc' = "hx_del_pages"
    /\ UNCHANGED <<hxfixed, stores, fam, idx, files, conn, exc,
                   browsers_cleaned, errors, orig, results, cleaned_count, entries_removed>>

\* DELETE FROM moz_places WHERE id IN (SELECT place_id FROM moz_historyvisits)
DeleteVisitedPlaces(d) == [d EXCEPT !.urls = @ \ VisitUrls(d.visits)]

\* DELETE FROM urls   /   the moz_places statement above
HxDeletePages ==
    /\ pc = "hx_del_pages"
    /\ conn' = IF HxFamily \in Chromium
               THEN Dml(DeleteAllPages(conn.db))
               ELSE Dml(DeleteVisitedPlaces(conn.db))
    /\ pc' = "hx_del_visits"
    /\ UNCHANGED <<hxfixed, stores, fam, idx, files, count_before, exc,
                   browsers_cleaned, errors, orig, results, cleaned_count, entries_removed>>

\* DELETE FROM visits / moz_historyvisits
HxDeleteVisits ==
    /\ pc = "hx_del_visits"
    /\ conn' = Dml(DeleteAllVisits(conn.db))
    /\ pc' = "hx_del_others"
    /\ UNCHANGED <<hxfixed, stores, fam, idx, files, count_before, exc,
                   browsers_cleaned, errors, orig, results, cleaned_count, entries_removed>>

\* DELETE FROM downloads; DELETE FROM downloads_url_chains / DELETE FROM
\* moz_inputhistory: tables the record does not carry.
HxDeleteOthers ==
    /\ pc = "hx_del_others"
    /\ conn' = Dml(conn.db)
    /\ pc' = "hx_vacuum"
    /\ UNCHANGED <<hxfixed, stores, fam, idx, files, count_before, exc,
                   browsers_cleaned, errors, orig, results, cleaned_count, entries_removed>>

\* cursor.execute("VACUUM") comes before conn.commit(): sqlite refuses inside
\* the open transaction. conn.commit(), conn.close(), os.remove, shutil.move and
\* cleaned_count += count_before (lines 175-182, 259-266, 357-364) are never
\* reached.
HxVacuum ==
    /\ pc = "hx_vacuum"
    /\ IF conn.txn
       THEN exc' = "hx_vacuum" /\ pc' = "hx_except"
       ELSE exc' = exc /\ pc' = "hx_commit"
    /\ UNCHANGED <<hxfixed, stores, fam, idx, files, conn, count_before,
                   browsers_cleaned, errors, orig, results, cleaned_count, entries_removed>>

HxRaisingSteps ==
    {"hx_connect", "hx_count", "hx_del_pages", "hx_del_visits", "hx_del_others",
     "sf_connect", "sf_probe", "sf_count", "sf_del_items", "sf_del_visits", "sf_close"}

HxStatementRaises ==
    /\ pc \in HxRaisingSteps
    /\ HxMayRaise
    /\ exc' = pc
    /\ pc' = IF HxFamily = "Safari" THEN "sf_except" ELSE "hx_except"
    /\ UNCHANGED <<hxfixed, stores, fam, idx, files, conn, count_before,
                   browsers_cleaned, errors, orig, results, cleaned_count, entries_removed>>

\* if 'backup_path' in locals() and backup_path.exists()
HxRestoreNeeded == Exists(bak)

\* self.errors.append(...) and no restore.
HxHandlerRecords ==
    /\ pc = "hx_except"
    /\ ~HxRestoreNeeded
    /\ errors' = Append(errors, HxError("cleaning_history", exc))
    /\ results' = Append(results, HxResult(FALSE, 0, exc, ""))
    /\ idx' = idx + 1
    /\ pc' = "hx_loop"
    /\ UNCHANGED <<hxfixed, stores, fam, files, conn, count_before, exc,
                   browsers_cleaned, orig, cleaned_count, entries_removed>>

\* shutil.copy2(backup_path, history_db)
HxHandlerRestores ==
    /\ pc = "hx_except"
    /\ HxRestoreNeeded
    /\ live' = bak
    /\ errors' = Append(errors, HxError("cleaning_history", exc))
    /\ results' = Append(results, HxResult(FALSE, 0, exc, "ok"))
    /\ idx' = idx + 1
    /\ pc' = "hx_loop"
    /\ UNCHANGED <<hxfixed, stores, fam, bak, tmp, conn, count_before, exc,
                   browsers_cleaned, orig, cleaned_count, entries_removed>>

\* The restore copy raises and "except: pass" swallows it: the live path keeps
\* its file, or holds a truncated or a full copy of the backup.
HxHandlerRestoreSwallowed ==
    /\ pc = "hx_except"
    /\ HxRestoreNeeded
    /\ HxMayRaise
    /\ live' \in {live, PartialFile, bak}
    /\ errors' = Append(errors, HxError("cleaning_history", exc))
    /\ results' = Append(results, HxResult(FALSE, 0, exc, "raised"))
    /\ idx' = idx + 1
    /\ pc' = "hx_loop"
    /\ UNCHANGED <<hxfixed, stores, fam, bak, tmp, conn, count_before, exc,
                   browsers_cleaned, orig, cleaned_count, entries_removed>>

\* self.entries_removed += cleaned_count; self.browsers_cleaned.append(<family>)
HxUpdateTotals ==
    /\ pc = "hx_loop" /\ idx > Len(stores[HxFamily])
    /\ entries_removed' = entries_removed + cleaned_count
    /\ browsers_cleaned' = Append(browsers_cleaned, HxFamily)
    /\ fam' = fam + 1
    /\ pc' = "hx_main"
    /\ UNCHANGED <<hxfixed, stores, idx, files, conn, count_before, exc,
                   errors, orig, results, cleaned_count>>

HxNext ==
    \/ HxAskConfirmation
    \/ SafariStart \/ SafariPathAbsent \/ SafariBeginDb
    \/ SafariBackupOk \/ SafariBackupFails \/ SafariConnect \/ SafariProbe
    \/ SafariCount \/ SafariDeleteItems \/ SafariDeleteVisits \/ SafariVacuum
    \/ SafariClose \/ SafariDbError \/ SafariRemoveFile \/ SafariRemoveFails
    \/ SafariAppleScript \/ SafariAppleScriptFails \/ SafariTotals
    \/ HxFamilyNotFound \/ HxStartFamily \/ HxFinish
    \/ HxProfileWithoutStore \/ HxBeginCycle
    \/ HxBackupOk \/ HxBackupFails \/ HxWorkingCopyOk \/ HxWorkingCopyFails
    \/ HxConnect \/ HxCount \/ HxDeletePages \/ HxDeleteVisits \/ HxDeleteOthers
    \/ HxVacuum \/ HxStatementRaises
    \/ HxHandlerRecords \/ HxHandlerRestores \/ HxHandlerRestoreSwallowed
    \/ HxUpdateTotals

HxSpec == HxInit /\ [][HxNext]_vars

\* The positions after VACUUM in the text of the routines.
HxAfterVacuum == {"hx_commit", "sf_commit"}

\* ================================ other processes on the same profile
\* While browser_cleaner runs a cycle on a store, view_cache.py may be run on
\* the same profile (its temp_db is the same path, history_temp.db or
\* places_temp.sqlite, as the cycle's working copy) and the owning browser may
\* commit to the live file. One pass of the viewer over the store and at most
\* MaxBrowserVisits commits are explored.
MaxBrowserVisits == 1

\* One family with at most one profile, holding one page with one visit.
ConcInit ==
    /\ time_range \in {0, WindowHours}
    /\ clock = Now0
    /\ \E f \in Families : \E L \in {<<>>} \cup { <<KindFile(f, k)>> : k \in Kinds } :
          /\ args = {f}
          /\ stores = [g \in Families |-> IF g = f THEN L ELSE <<>>]
    /\ InitRest

InCycle == pc \notin {"main", "loop", "end"}
viewfixed == <<inputs, ctrl, locals, exc, report, orig,
               cleaned_count, entries_removed, history_items, browser_visits>>

\* A file sqlite3.connect created: a database without tables.
EmptyFile == [kind |-> "empty", db |-> EmptyDb]

\* The connection of the cycle after another process removed the file it has
\* open: the file has no path any more.
Unlinked(c) ==
    IF c.state = "open" /\ c.path = "temp" THEN [c EXCEPT !.path = "unlinked"] ELSE c

\* for profile in profile_dirs: ... if history_db.exists():
ViewStart ==
    /\ view_pc = "idle"
    /\ InCycle
    /\ Exists(live)
    /\ view_pc' = "v_rm"
    /\ UNCHANGED <<viewfixed, pc, files, conn>>

\* if temp_db.exists(): os.remove(temp_db)
ViewRemoveStale ==
    /\ view_pc = "v_rm"
    /\ tmp' = NoFile
    /\ conn' = IF Exists(tmp) THEN Unlinked(conn) ELSE conn
    /\ view_pc' = "v_copy"
    /\ UNCHANGED <<viewfixed, pc, live, bak>>

\* with open(history_db, 'rb') as src, open(temp_db, 'wb') as dst:
\*     dst.write(src.read())
\* open(history_db) raises when the cycle has removed the live file. A file at
\* temp_db is truncated and rewritten in place: a connection open on it
\* outside a transaction reads the new content from then on.
ViewCopy ==
    /\ view_pc = "v_copy"
    /\ IF Exists(live)
       THEN /\ tmp' = live
            /\ conn' = IF conn.state = "open" /\ conn.path = "temp" /\ ~conn.txn
                       THEN [conn EXCEPT !.db = live.db] ELSE conn
            /\ view_pc' = "v_read"
       ELSE /\ UNCHANGED <<tmp, conn>>
            /\ view_pc' = "v_failed"
    /\ UNCHANGED <<viewfixed, pc, live, bak>>

\* conn = sqlite3.connect(str(temp_db)); SELECT ...; conn.close()
\* (connect creates the file when the cycle has moved it away; the error of
\* the SELECT is caught).
ViewRead ==
    /\ view_pc = "v_read"
    /\ tmp' = IF Exists(tmp) THEN tmp ELSE EmptyFile
    /\ view_pc' = "v_rm_end"
    /\ UNCHANGED <<viewfixed, pc, live, bak, conn>>

\* if temp_db.exists(): os.remove(temp_db)
ViewRemoveTemp ==
    /\ view_pc = "v_rm_end"
    /\ tmp' = NoFile
    /\ conn' = IF Exists(tmp) THEN Unlinked(conn) ELSE conn
    /\ view_pc' = "done"
    /\ UNCHANGED <<viewfixed, pc, live, bak>>

\* The cycle's sqlite3.connect(str(temp_db)) finds no file and creates one.
ConnectCreatesFile ==
    /\ pc = "connect"
    /\ ~Exists(tmp)
    /\ tmp' = EmptyFile
    /\ conn' = [state |-> "open", path |-> "temp", txn |-> FALSE, db |-> EmptyDb]
    /\ pc' = "notable"
    /\ UNCHANGED <<inputs, outside, ctrl, live, bak, locals, exc, report, orig>>

\* PRAGMA table_info(visits) returns no row; SELECT COUNT(*) raises
\* "no such table".
NoSuchTable ==
    /\ pc = "notable"
    /\ exc' = IF Family \in Chromium THEN "count" ELSE "ff_count"
    /\ pc' = "except"
    /\ UNCHANGED <<inputs, outside, ctrl, files, conn, locals, report, orig>>

\* "attempt to write a readonly database": the working copy was removed under
\* the connection.
WriteSteps ==
    {"begin", "del_urls", "del_visits", "del_visits_t", "del_orphans",
     "ff_del_visits", "ff_del_places", "ff_del_visits_t", "ff_del_orphans", "vacuum"}

DbMoved ==
    /\ pc \in WriteSteps
    /\ ~Writable
    /\ exc' = pc
    /\ pc' = "except"
    /\ UNCHANGED <<inputs, outside, ctrl, files, conn, locals, report, orig>>

\* shutil.move(temp_db, history_db) finds no temp_db.
MoveNoSource ==
    /\ pc = "move"
    /\ ~Exists(tmp)
    /\ exc' = "move"
    /\ pc' = "except"
    /\ UNCHANGED <<inputs, outside, ctrl, files, conn, locals, report, orig>>

\* The browser commits one visit (and its page) to its History / places.sqlite
\* while the cycle runs.
BrowserCommitsVisit ==
    /\ InCycle
    /\ live.kind = "db"
    /\ Cardinality(browser_visits) < MaxBrowserVisits
    /\ \E p \in PageIds : \E t \in TimesFor(Family) :
          LET v == [id |-> MaxVisits + 1 + Cardinality(browser_visits),
                    url |-> p, visit_time |-> t]
          IN  /\ live' = DbFile([live.db EXCEPT !.visits = @ \cup {v},
                                                !.urls = @ \cup {p}])
              /\ browser_visits' = browser_visits \cup
                    {[visit |-> v, during |-> pc \notin {"backup", "workcopy", "rm_bak", "tally", "except"}]}
    /\ UNCHANGED <<inputs, ctrl, pc, bak, tmp, conn, locals, exc, report, orig,
                   cleaned_count, entries_removed, history_items, view_pc>>

ConcNext ==
    \/ Next
    \/ ViewStart \/ ViewRemoveStale \/ ViewCopy \/ ViewRead \/ ViewRemoveTemp
    \/ ConnectCreatesFile \/ NoSuchTable \/ DbMoved \/ MoveNoSource
    \/ BrowserCommitsVisit

ConcSpec == ConcInit /\ [][ConcNext]_vars

\* ================================================================= claims
Last(seq) == seq[Len(seq)]
CycleEnded == pc \in {"main", "loop", "end"} /\ results # <<>>
Succeeded == CycleEnded /\ Last(results).succeeded
Failed == CycleEnded /\ ~Last(results).succeeded

\* The statements of a cycle that precede the swap (os.remove, shutil.move).
SqlSteps ==
    {"connect", "probe", "count", "begin", "del_urls", "del_visits", "del_kst",
     "sel_ids", "del_visits_t", "del_kst_t", "del_orphans", "ff_count",
     "ff_del_visits", "ff_del_places", "ff_sel", "ff_del_visits_t",
     "ff_del_orphans", "commit", "vacuum", "close"}
PreSwapCauses == {"backup", "workcopy"} \cup SqlSteps
PreSwapSteps == PreSwapCauses \cup {"rm_live"}

NoOrphanPage(d) == \A p \in d.urls : p \in VisitUrls(d.visits) \cup d.bookmarks
NoDanglingVisit(d) == \A v \in d.visits : v.url \in d.urls

ErrorsOf(f, p) ==
    { i \in 1..Len(errors) : errors[i].family = f /\ errors[i].profile = p }

RECURSIVE SumSucceeded(_, _)
SumSucceeded(rs, f) ==
    IF rs = <<>> THEN 0
    ELSE (IF Head(rs).family = f /\ Head(rs).succeeded
          THEN Head(rs).rowsRemoved ELSE 0) + SumSucceeded(Tail(rs), f)

\* C1: after every successful cycle, every page row left in the live store is
\* referenced by a surviving visit row or by a bookmark.
C1_NoOrphanPageAfterSuccess ==
    Succeeded => NoOrphanPage(live.db)

C3_LiveUntouchedBeforeSwap ==
    (pc \in PreSwapSteps \/ exc \in PreSwapCauses) => (Exists(live) /\ live = orig)

C3_Witness ==
    /\ Failed /\ exc = "vacuum"
    /\ tmp.kind = "db" /\ tmp.db # orig.db
    /\ live = orig

\* C4: when shutil.move raised after os.remove and the restore copy succeeded,
\* the cycle ends with the live file holding the original content, the backup
\* in place, exactly one error recorded for the store and nothing added to the
\* family's count.
C4_RestoredAfterFailedSwap ==
    (CycleEnded /\ Last(results).cause = "move" /\ Last(results).restored = "ok")
    => /\ Exists(live) /\ live = orig
       /\ Exists(bak) /\ bak = orig
       /\ Cardinality(ErrorsOf(Last(results).family, Last(results).profile)) = 1
       /\ pc = "loop" => history_count = SumSucceeded(results, Family)

C4_Witness ==
    /\ pc = "loop" /\ results # <<>> /\ Last(results).cause = "move" /\ Last(results).restored = "ok"
    /\ count_before > 0
    /\ tmp.kind = "db" /\ tmp.db # orig.db
    /\ Len(results) > 1

\* C5: at the end of a run every profile store of every selected family has
\* been through a cycle, whatever failed in the cycles before it.
C5_EveryStoreProcessed ==
    pc = "end" =>
        \A f \in args : \A i \in 1..Len(stores[f]) :
            Exists(stores[f][i]) =>
                \E k \in 1..Len(results) :
                    results[k].family = f /\ results[k].profile = i

\* C6: when the restore copy raises, an error is recorded that names the
\* family and the profile of the store, is of another kind than an ordinary
\* cycle error, and the cause of the original failure is recorded too.
C6_RestoreFailureReported ==
    (CycleEnded /\ Last(results).restored = "raised") =>
        /\ \E i \in 1..Len(errors) :
              /\ errors[i].family = Last(results).family
              /\ errors[i].profile = Last(results).profile
              /\ errors[i].kind # "cleaning_history"
        /\ \E j \in 1..Len(errors) : errors[j].cause = Last(results).cause


\* C7: when the backup copy raises, the cycle ends as failed with one error
\* recorded and nothing else done: no working copy, no connection, the live
\* file as it was, nothing added to the family's count.
C7_BackupFailureStopsCycle ==
    exc = "backup" =>
        /\ pc \in {"except", "loop", "main", "end"}
        /\ conn.state = "none"
        /\ tmp.kind \in {"absent", "stale"}
        /\ Exists(live) /\ live = orig
        /\ pc # "except" =>
              /\ ~Last(results).succeeded
              /\ Last(results).cause = "backup"
              /\ Last(results).restored = ""
              /\ Cardinality(ErrorsOf(Last(results).family, Last(results).profile)) = 1
              /\ Last(errors).cause = "backup"
              /\ pc = "loop" => history_count = SumSucceeded(results, Family)

C7_Witness ==
    /\ exc = "backup" /\ pc = "loop"
    /\ Len(results) > 1 /\ history_count > 0
    /\ bak = PartialFile

AfterBackupBeforeRemoval ==
    \/ pc \in (PreSwapSteps \ {"backup"}) \cup {"move", "rm_bak"}
    \/ pc = "except" /\ exc # "backup"

\* C8: from the end of the backup step until the swap has succeeded the backup
\* file exists and holds the original store; it is removed only when the live
\* path holds the pruned working copy.
C8_BackupKeptUntilSwapped ==
    /\ AfterBackupBeforeRemoval => (Exists(bak) /\ bak = orig)
    /\ pc \in {"rm_bak", "tally"} =>
          (live.kind = "db" /\ live = DbFile(conn.db) /\ ~Exists(tmp))

C8_Witness ==
    /\ pc = "tally" /\ ~Exists(bak)
    /\ live.kind = "db" /\ live.db # orig.db

\* C9: a cycle that failed at any statement after the backup copy ends with
\* the backup file in place, whether or not a restore was attempted or
\* succeeded.
C9_BackupRetainedOnFailure ==
    (Failed /\ Last(results).cause # "backup") => (Exists(bak) /\ bak = orig)

C9_Witness ==
    /\ Failed /\ Last(results).restored = "raised"
    /\ ~Exists(live) /\ Exists(bak)

InOrAfterCycle == CycleEnded \/ pc \notin {"main", "loop", "end"}

\* C10 (as claimed): in every state of a cycle and after it the live path
\* holds the complete original store or the complete pruned store.
C10_LiveAlwaysComplete ==
    InOrAfterCycle =>
        (live.kind = "db" /\ (live = orig \/ live = DbFile(conn.db)))

SwapStarted == pc \in {"move", "rm_bak", "tally"} \/ exc \in {"move", "rm_bak"} \/ Succeeded

\* C10 (amended): the live path holds the complete original store until
\* os.remove; from then on it holds the complete pruned store, or is absent or
\* truncated, which it is only between os.remove and the end of shutil.move
\* or, when shutil.move raised, until a restore copy succeeds.
C10_LiveIncompleteOnlyInSwap ==
    InOrAfterCycle =>
        \/ live.kind = "db" /\ live = orig
        \/ /\ SwapStarted
           /\ \/ live.kind = "db" /\ live = DbFile(conn.db)
              \/ live.kind \in {"absent", "partial"} /\ (pc = "move" \/ exc = "move")

C10_Witness ==
    /\ pc = "move" /\ ~Exists(live)
    /\ tmp.kind = "db" /\ tmp.db # orig.db


\* C11 (as claimed): after a successful cycle under a window of h > 0 hours no
\* visit row of the live store has a timestamp greater than or equal to the
\* family's cutoff: a visit exactly at the cutoff is removed.
C11_NoVisitAtOrAfterCutoff ==
    (Succeeded /\ time_range > 0) =>
        \A v \in live.db.visits : v.visit_time < cutoff

\* C11 (amended): after a successful cycle under a window of h > 0 hours the
\* visit rows of the live store are exactly the original rows whose timestamp
\* is not greater than the cutoff: strictly newer rows are removed, a row
\* exactly at the cutoff is kept.
C11_StrictlyNewerVisitsRemoved ==
    (Succeeded /\ time_range > 0) =>
        live.db.visits = { v \in orig.db.visits : v.visit_time <= cutoff }

C11_Witness ==
    /\ Succeeded /\ time_range > 0
    /\ \E v \in live.db.visits : v.visit_time = cutoff
    /\ \E v \in orig.db.visits : v.visit_time > cutoff

\* C12: after a successful cycle under AllTime (time_range = 0) the visit table
\* of the live store is empty and every page row left is referenced by a
\* preserved relation (moz_bookmarks for Firefox, none for Chrome and Brave),
\* whatever the store held.
C12_AllTimeEmptiesTables ==
    (Succeeded /\ time_range = 0) =>
        /\ live.db.visits = {}
        /\ live.db.urls \subseteq live.db.bookmarks

\* The last cycle was the cycle of a second invocation on a store that the
\* invocation before had pruned.
SecondRunSucceeded ==
    /\ Succeeded /\ Len(results) >= 2
    /\ results[Len(results) - 1].succeeded

\* C13: a second successful cycle on the same store, with the same window and
\* the same cutoff, reports 0 rows removed and leaves the visit, page and
\* auxiliary tables as the first cycle left them, for every family and both
\* window kinds.
C13_SecondRunIdempotent ==
    SecondRunSucceeded =>
        /\ Last(results).rowsRemoved = 0
        /\ live.db = orig.db

\* The rows of the counted table (pages under AllTime, visits under a window
\* of hours) that the last cycle removed from the store.
RowsRemoved ==
    IF time_range = 0
    THEN Cardinality(orig.db.urls \ live.db.urls)
    ELSE Cardinality(orig.db.visits \ live.db.visits)

\* C14: the count a successful cycle reports (count_before) is the number of
\* rows of the counted table that the cycle removed, Firefox stores with
\* bookmarked pages included.
C14_CountIsRowsRemoved ==
    Succeeded => Last(results).rowsRemoved = RowsRemoved

SwapSteps == {"rm_live", "move", "rm_bak", "tally"}

\* C15: in every routine VACUUM is issued on an open connection with no
\* transaction open and with every statement of the cycle committed to the
\* working copy, and the connection is closed before the swap starts.
C15_VacuumAfterCommit ==
    /\ pc = "vacuum" =>
          /\ conn.state = "open" /\ ~conn.txn
          /\ FileAt(conn.path) = DbFile(conn.db)
    /\ pc = "close" => ~conn.txn
    /\ (pc \in SwapSteps \/ exc \in SwapSteps) => conn.state = "closed"

C15_Witness ==
    /\ pc = "rm_live" /\ Family = "Brave" /\ time_range > 0
    /\ url_ids # {} /\ tmp.db # orig.db

\* The last cycle ran on a Chrome or Brave store whose visits table has
\* neither a url_id nor a url column.
NoAliasCycleEnded ==
    /\ CycleEnded /\ Last(results).family \in Chromium
    /\ orig.kind = "db" /\ orig.db.col = "none"

\* C16: under both window kinds the cycle of a Chrome or Brave store whose
\* visits table has none of the known page reference columns ends as failed
\* with an error recorded for the store; when an SQL statement raised, the
\* live file is untouched and the backup is retained.
C16_NoAliasFails ==
    NoAliasCycleEnded =>
        /\ ~Last(results).succeeded
        /\ ErrorsOf(Last(results).family, Last(results).profile) # {}
        /\ Last(results).cause \in SqlSteps =>
              (live = orig /\ Exists(bak) /\ bak = orig)

KstSteps == {"del_kst", "del_kst_t"}

\* C17: no Chrome or Brave cycle fails at a keyword_search_terms statement:
\* no error names one as its cause, and a cycle on a store without the table
\* that succeeded has deleted what its window selects (every page and visit
\* under AllTime, every visit newer than the cutoff otherwise).
C17_MissingKstNotAnError ==
    /\ exc \notin KstSteps
    /\ \A i \in 1..Len(errors) : errors[i].cause \notin KstSteps
    /\ \A i \in 1..Len(results) : results[i].cause \notin KstSteps
    /\ (Succeeded /\ Last(results).family \in Chromium /\ ~orig.db.hasKst) =>
          /\ ~live.db.hasKst
          /\ IF time_range = 0
             THEN live.db.urls = {} /\ live.db.visits = {}
             ELSE Newer(live.db, cutoff) = {}

C17_Witness ==
    /\ Succeeded /\ Last(results).family \in Chromium /\ ~orig.db.hasKst
    /\ time_range = 0 /\ errors = <<>>
    /\ Last(results).rowsRemoved > 0
    /\ orig.db.visits # {} /\ live.db.visits = {}

\* C18: after a successful Firefox cycle, under either window kind, every
\* moz_places row that a moz_bookmarks row references is still in the store
\* (and moz_bookmarks is as it was), whether or not a visit references it.
C18_BookmarkedPlacesSurvive ==
    (Succeeded /\ Last(results).family = "Firefox") =>
        /\ (orig.db.urls \cap orig.db.bookmarks) \subseteq live.db.urls
        /\ live.db.bookmarks = orig.db.bookmarks
        /\ live.db.bmNull = orig.db.bmNull

C18_Witness ==
    /\ Succeeded /\ Last(results).family = "Firefox"
    /\ live.db.urls # orig.db.urls
    /\ \E p \in orig.db.urls \cap orig.db.bookmarks :
          /\ p \in VisitUrls(orig.db.visits)
          /\ p \notin VisitUrls(live.db.visits)
          /\ p \in live.db.urls

\* The family whose routine called get_cutoff_time last.
LastCaller ==
    FamilyOrder[CHOOSE i \in 1..3 :
                  /\ FamilyOrder[i] \in args
                  /\ IF pc = "main" THEN i < fam ELSE i <= fam
                  /\ \A j \in (i + 1)..3 :
                        FamilyOrder[j] \in args =>
                            (IF pc = "main" THEN j >= fam ELSE j > fam)]

SumAllSucceeded ==
    SumSucceeded(results, "Chrome") + SumSucceeded(results, "Firefox")
        + SumSucceeded(results, "Brave")

\* C20: at the end of a run history_entries_removed is the sum of the counts
\* reported by the cycles that succeeded: a failed cycle adds nothing and no
\* successful cycle's count is lost.
C20_TotalIsSumOfSucceeded ==
    pc = "end" => history_entries_removed = SumAllSucceeded

CleanedAt(f) == { i \in 1..Len(browsers_cleaned) : browsers_cleaned[i] = f }

SucceededIn(f) ==
    \E k \in 1..Len(results) : results[k].family = f /\ results[k].succeeded

\* C21: at the end of a run a family is in browsers_cleaned exactly when one
\* of its cycles succeeded (a cycle that reported 0 rows included), and it is
\* there at most once.
C21_CleanedIffSucceeded ==
    pc = "end" =>
        \A f \in Families :
            /\ (CleanedAt(f) # {}) <=> SucceededIn(f)
            /\ Cardinality(CleanedAt(f)) <= 1

\* C22: every cycle that failed has exactly one entry in errors that names
\* the family and the profile of its store, and every cycle that succeeded
\* has none.
C22_OneErrorPerFailedCycle ==
    \A k \in 1..Len(results) :
        Cardinality(ErrorsOf(results[k].family, results[k].profile))
            = IF results[k].succeeded THEN 0 ELSE 1

\* The statements of a cycle in the order of the source text (the statements
\* of the three routines and of both window kinds merged).
CycleOrder ==
    <<"backup", "workcopy", "connect", "probe", "count", "ff_count", "begin",
      "del_urls", "del_visits", "del_kst", "sel_ids", "del_visits_t",
      "del_kst_t", "del_orphans", "ff_del_visits", "ff_del_places", "ff_sel",
      "ff_del_visits_t", "ff_del_orphans", "commit", "vacuum", "close",
      "rm_live", "move", "rm_bak", "tally">>
CycleSteps == { CycleOrder[i] : i \in 1..Len(CycleOrder) }
Rank(p) == CHOOSE i \in 1..Len(CycleOrder) : CycleOrder[i] = p
OutsideCycle == {"main", "loop", "end"}
CountSteps == {"count", "ff_count"}
DeleteSteps ==
    {"begin", "del_urls", "del_visits", "del_kst", "sel_ids", "del_visits_t",
     "del_kst_t", "del_orphans", "ff_del_visits", "ff_del_places", "ff_sel",
     "ff_del_visits_t", "ff_del_orphans"}

\* One step of a cycle: the statements follow each other in the fixed order
\* backup, working copy, (connect, probe,) count, delete, commit, VACUUM,
\* close, swap, backup removal; a statement that raised is followed by the
\* except block only, which writes nothing but the restored live file; the
\* cycle ends after the backup removal (count added, no error, a result
\* marked succeeded) or after the except block (an error recorded, nothing
\* added, a result marked failed).
CycleStep ==
    /\ pc \in CycleSteps =>
          \/ pc' = "except" /\ exc' = pc
          \/ pc' \in CycleSteps /\ Rank(pc') > Rank(pc)
          \/ pc = "tally" /\ pc' = "loop"
    /\ (pc = "backup" /\ pc' # "except") => pc' = "workcopy"
    /\ (pc = "workcopy" /\ pc' # "except") => pc' = "connect"
    /\ (pc = "connect" /\ pc' # "except") => pc' \in {"probe"} \cup CountSteps
    /\ (pc = "probe" /\ pc' # "except") => pc' \in CountSteps
    /\ (pc \in CountSteps /\ pc' # "except") => pc' \in DeleteSteps
    /\ (pc \in DeleteSteps /\ pc' # "except") => pc' \in DeleteSteps \cup {"commit"}
    /\ (pc = "commit" /\ pc' # "except") => pc' = "vacuum"
    /\ (pc = "vacuum" /\ pc' # "except") => pc' = "close"
    /\ (pc = "close" /\ pc' # "except") => pc' = "rm_live"
    /\ (pc = "rm_live" /\ pc' # "except") => pc' = "move"
    /\ (pc = "move" /\ pc' # "except") => pc' = "rm_bak"
    /\ (pc = "rm_bak" /\ pc' # "except") => pc' = "tally"
    /\ pc = "tally" =>
          /\ errors' = errors
          /\ history_count' = history_count + count_before
          /\ Len(results') = Len(results) + 1
          /\ results'[Len(results')].succeeded
          /\ UNCHANGED <<files, conn>>
    /\ pc = "except" =>
          /\ pc' \in {"loop", "main"}
          /\ Len(errors') = Len(errors) + 1
          /\ history_count' = history_count
          /\ Len(results') = Len(results) + 1
          /\ ~results'[Len(results')].succeeded
          /\ UNCHANGED <<bak, tmp, conn>>
    /\ (pc \notin OutsideCycle /\ pc' \in OutsideCycle) => pc \in {"tally", "except"}
    /\ (pc \in OutsideCycle /\ pc' \notin OutsideCycle) => pc' = "backup"

\* C23: every step of every cycle is a step in the fixed order of the cycle,
\* each statement is executed at most once, nothing but the except block
\* follows a statement that raised, and every cycle ends as Done or as Failed.
C23_FixedStepOrder == [][CycleStep]_vars

C23_Witness ==
    /\ Failed /\ exc = "commit" /\ Last(results).cause = "commit"
    /\ conn.state = "open" /\ conn.db # orig.db
    /\ tmp = orig /\ live = orig /\ bak = orig

ChromiumDeleteSteps ==
    {"del_urls", "del_visits", "del_kst", "sel_ids", "del_visits_t", "del_kst_t",
     "del_orphans"}

\* C24 (as claimed): in the deletion step of a Chrome or Brave cycle, under
\* both window kinds, no page row is deleted while a visit row that references
\* it is still in the table, and no page row is deleted before the
\* keyword_search_terms statement has run.
C24_VisitsThenAuxThenPages ==
    pc \in ChromiumDeleteSteps =>
        /\ \A p \in orig.db.urls \ conn.db.urls : p \notin VisitUrls(conn.db.visits)
        /\ pc \in {"del_kst", "del_kst_t"} => conn.db.urls = orig.db.urls

\* C24 (amended): under a window of hours the statements run in the order
\* visits, keyword_search_terms, urls; under AllTime they run in the order
\* urls, visits, keyword_search_terms; in both cases nothing reaches the
\* working copy before the commit that follows the last of them.
C24_DeleteOrderPerWindow ==
    pc \in ChromiumDeleteSteps =>
        /\ tmp = orig
        /\ pc \in {"del_urls", "sel_ids", "del_visits_t"} => conn.db = orig.db
        /\ pc = "del_visits" => conn.db = DeleteAllPages(orig.db)
        /\ pc = "del_kst" => conn.db = DeleteAllVisits(DeleteAllPages(orig.db))
        /\ pc = "del_kst_t" => conn.db = DeleteNewerVisits(orig.db, cutoff)
        /\ pc = "del_orphans" =>
              /\ conn.db.urls = orig.db.urls
              /\ conn.db.visits = DeleteNewerVisits(orig.db, cutoff).visits
              /\ conn.db.kst \in {orig.db.kst, orig.db.kst \ url_ids}

C24_Witness ==
    /\ pc = "del_visits" /\ time_range = 0
    /\ orig.db.urls # {} /\ conn.db.urls = {}
    /\ \E v \in conn.db.visits : v.url \in orig.db.urls

\* C25: a successful Chrome or Brave cycle under a window of hours removes
\* keyword_search_terms rows only of pages that no surviving visit references:
\* the rows of a page that still has a visit are left as they were.
C25_AuxRowsOfVisitedPagesKept ==
    (Succeeded /\ Last(results).family \in Chromium /\ time_range > 0) =>
        \A p \in orig.db.kst \ live.db.kst : p \notin VisitUrls(live.db.visits)

\* C26: after a successful Chrome or Brave cycle every keyword_search_terms
\* row references a url id that is in the urls table, whatever the store held.
C26_NoDanglingAuxRow ==
    (Succeeded /\ Last(results).family \in Chromium) =>
        live.db.kst \subseteq live.db.urls

\* C27: after a successful cycle under a window of hours a visit row is in
\* the live store exactly when it was in the original store with a timestamp
\* that is not newer than the cutoff: the rows of the window are deleted and
\* every older row is kept as it was, in every family.
C27_OlderVisitsKeptNewerDeleted ==
    (Succeeded /\ time_range > 0) =>
        /\ live.db.visits \subseteq orig.db.visits
        /\ \A v \in orig.db.visits :
              v \in live.db.visits <=> ~(v.visit_time > cutoff)

C27_Witness ==
    /\ Succeeded /\ time_range > 0
    /\ \E v \in orig.db.visits : v.visit_time < cutoff /\ v \in live.db.visits
    /\ \E v \in orig.db.visits : v.visit_time > cutoff /\ v \notin live.db.visits
    /\ Last(results).rowsRemoved = 1

\* What the deletion statements of a cycle under a window of hours make of
\* the store d with the cutoff c, when none of them raises.
RelativeDelete(f, d, c) ==
    IF f \in Chromium
    THEN LET ids == VisitUrls(Newer(d, c))
             d1 == DeleteNewerVisits(d, c)
             d2 == IF d1.hasKst THEN DeleteKstIn(d1, ids) ELSE d1
         IN  IF ids = {} THEN d ELSE DeleteOrphanUrls(d2)
    ELSE DeleteOrphanPlaces(DeleteNewerVisits(d, c))

\* A cutoff below every timestamp a store of the family can hold.
LowCutoff(f) == FamilyCutoff(f, Now0, WindowHours) - 2

\* C28: a successful AllTime cycle leaves the visit, page and auxiliary tables
\* that the deletion under a window of hours leaves when its cutoff is below
\* every stored timestamp, for every store and every family.
C28_AllTimeIsLowestCutoff ==
    (Succeeded /\ time_range = 0) =>
        live.db = RelativeDelete(Last(results).family, orig.db,
                                 LowCutoff(Last(results).family))

\* C29: after a successful cycle neither the backup nor the working copy is
\* on disk: the store's only file is the live file, which holds the pruned
\* database.
C29_OnlyLiveFileAfterSuccess ==
    Succeeded =>
        /\ ~Exists(bak) /\ ~Exists(tmp)
        /\ live.kind = "db" /\ live.db = conn.db

C29_Witness ==
    /\ Succeeded /\ pc = "end"
    /\ ~Exists(bak) /\ ~Exists(tmp)
    /\ live.kind = "db" /\ live.db.urls # orig.db.urls

\* C30: after a cycle that failed at the probe, the count, a delete, the
\* commit, the VACUUM or the swap, the backup is the only file left beside the
\* live file: the working copy is not on disk.
C30_NoWorkingCopyAfterFailure ==
    (Failed /\ Last(results).cause \in (SqlSteps \ {"connect"}) \cup {"rm_live", "move"}) =>
        (Exists(bak) /\ ~Exists(tmp))


\* ------------------------------------------------------- delete_hx claims
SafariSteps ==
    {"sf_connect", "sf_probe", "sf_count", "sf_del_items", "sf_del_visits",
     "sf_vacuum", "sf_close", "sf_except"}
HxOutsideCycle == {"hx_start", "hx_main", "hx_loop", "hx_end", "sf_loop", "sf_totals"}
HxCycleEnded == pc \in HxOutsideCycle /\ results # <<>>

\* Every cycle of clean_chrome_history, clean_firefox_history and
\* clean_brave_history fails: no run reaches a statement after VACUUM, and the
\* only cycle recorded as succeeded is Safari's over a History.db without a
\* history_items table, which deletes nothing.
HxNoCycleSucceeds ==
    /\ pc \notin HxAfterVacuum
    /\ \A i \in DOMAIN results :
          results[i].succeeded => results[i].family = "Safari" /\ ~history_items

\* C32: clean_safari_history has its connection open on a working copy, never
\* on the live History.db, and runs no DELETE against the live file.
C32_SafariConnectsToWorkingCopy ==
    (pc \in SafariSteps /\ conn.state = "open") => conn.path = "temp"

\* C33: in every delete_hx routine VACUUM is issued with no transaction open
\* (the DELETE statements are committed first).
C33_VacuumOutsideTransaction ==
    pc \in {"hx_vacuum", "sf_vacuum"} => ~conn.txn

\* C34: when the backup copy of a Chrome, Firefox or Brave cycle fails, the
\* live store file is what it was before the cycle, also with a backup of an
\* earlier run at the backup path.
C34_BackupFailureLeavesLive ==
    (HxCycleEnded /\ Last(results).cause = "hx_backup") => live = orig

HxSucceededIn(f) == \E i \in DOMAIN results : results[i].family = f /\ results[i].succeeded
RECURSIVE HxSumSucceeded(_)
HxSumSucceeded(rs) ==
    IF rs = <<>> THEN 0
    ELSE (IF rs[1].succeeded THEN rs[1].rowsRemoved ELSE 0) + HxSumSucceeded(Tail(rs))

\* C35: a family is in browsers_cleaned only if one of its stores was mutated
\* successfully, and entries_removed is the sum of the counts of the stores
\* mutated successfully.
C35_CleanedOnlyIfMutated ==
    /\ \A i \in DOMAIN browsers_cleaned : HxSucceededIn(browsers_cleaned[i])
    /\ pc = "hx_end" => entries_removed = HxSumSucceeded(results)

\* C37: after the DELETE statements of clean_firefox_history every bookmarked
\* moz_places row of the store is still there, and every remaining row is
\* referenced by a visit or by a bookmark.
C37_BookmarkedKeptNoOrphanLeft ==
    (pc = "hx_vacuum" /\ HxFamily = "Firefox") =>
        /\ (orig.db.urls \cap orig.db.bookmarks) \subseteq conn.db.urls
        /\ conn.db.urls \subseteq (VisitUrls(conn.db.visits) \cup conn.db.bookmarks)

\* ----------------------------------------------------- one instant per run
\* C39: within one run with a RelativeHours window every family's cutoff comes
\* from the same instant: every call of get_cutoff_time after the first returns
\* the CutoffSet the first returned (so Chrome's and Brave's cutoffs are equal
\* and Firefox's differs from them by the epoch offset), however long the
\* families before it took.
C39_OneInstantPerRun ==
    [][(time_range # 0 /\ cutoff_times # NoCutoffs) => cutoff_times' = cutoff_times]_vars

\* ------------------------------------------- other processes on the profile
\* From the creation of the working copy to its move onto the live path.
HoldsWorkingCopy == SqlSteps \cup {"notable", "rm_live", "move"}

\* C31: while a cycle is between creating and moving its working copy, no step
\* of another operation of the program (view_cache on the same profile)
\* removes or overwrites the file at the working-copy path.
C31_WorkingCopyExclusive ==
    [][(pc \in HoldsWorkingCopy /\ view_pc' # view_pc) => tmp' = tmp]_vars

\* C38: a visit older than the cutoff that the browser committed to the live
\* store while the cycle held its working copy is in the live store after the
\* cycle succeeded (no other process touched the profile).
C38_BrowserVisitSurvives ==
    (Succeeded /\ time_range # 0 /\ view_pc = "idle") =>
        \A b \in browser_visits :
            (b.during /\ b.visit.visit_time < cutoff) => b.visit \in live.db.visits
====
